---- MODULE Spec2Model ----
(***************************************************************************)
(* A model of the FranceLisRAG pipeline:                                   *)
(*   2-extract_hl7_FranceLISLib.py  parse_hl7_file, exporter_resultats     *)
(*   3-extract_to_milvus.py         standardize_label, MilvusVectorizer,   *)
(*                                  parse_hl7_to_milvus,                   *)
(*                                  rechercher_code_ana                    *)
(*   split_json.py                  check_memory_requirement,              *)
(*                                  split_json_file                        *)
(* Strings are sequences of characters (one-character strings); list       *)
(* indices are Python's (0-based) and are read through At.                 *)
(***************************************************************************)
EXTENDS Integers, Sequences, FiniteSets, TLC

VARIABLES
    hl7_file,            \* the HL7 input: [access, content]
    pc,                  \* position of the running function
    lines,               \* parse_hl7_file: file_content.split('\n')
    i,                   \* parse_hl7_file: loop index
    res_uniques,         \* parse_hl7_file: set of RES keys seen
    results,             \* parse_hl7_file: list of records
    nb_doublons,         \* parse_hl7_file: duplicate counter
    max_lengths,         \* parse_hl7_file: running maxima
    sous_champ3_values,  \* parse_hl7_file: chapters seen (logged only)
    ret,                 \* parse_hl7_file: the returned triple
    n_label,             \* standardize_label: the label argument
    n_table,             \* standardize_label: the medical_synonyms argument
    n_pc,                \* how many times standardize_label was applied
    n_once,              \* standardize_label(label, table)
    n_twice,             \* standardize_label(n_once, table)
    txt_file,            \* the export read by parse_hl7_to_milvus: [access, content]
    vectorizer_model,    \* MilvusVectorizer.model: loaded or None, and the
                         \* loaded model's native output length
    config_ini,          \* the MEDICAL_SYNONYMS section of config.ini
    m_pc,                \* position of parse_hl7_to_milvus
    m_lines,             \* parse_hl7_to_milvus: file_content.split('\n')
    m_i,                 \* parse_hl7_to_milvus: loop index
    milvus_data,         \* parse_hl7_to_milvus: milvus_data["data"]
    emb_failed,          \* per appended entry: was "Erreur de vectorisation" printed
    m_ret,               \* parse_hl7_to_milvus: the returned value
    s_pc,                \* position of rechercher_code_ana
    s_model,             \* rechercher_code_ana: the MilvusVectorizer it builds
    query_embedding,     \* what the external model gives for libelle_recherche
    s_catalog,           \* rechercher_code_ana: milvus_data['data']
    vector_recherche,    \* rechercher_code_ana: the query vector
    s_i,                 \* rechercher_code_ana: entries visited
    resultats,           \* rechercher_code_ana: the matches, in catalog order
    s_ret,               \* rechercher_code_ana: the returned list
    input_file,          \* split_json_file: the input file on disk
    available_memory,    \* psutil.virtual_memory().available
    num_splits,          \* split_json_file: the num_splits argument
    sp_pc,               \* position of split_json_file, or the exception it raised
    file_size,           \* split_json_file: file_size
    memory_checked,      \* has check_memory_requirement compared the two figures
    input_opened,        \* has open(input_file) been called
    sp_data,             \* split_json_file: data['data']
    total_items,         \* split_json_file: total_items
    items_per_split,     \* split_json_file: items_per_split
    output_dir_created,  \* has output_dir.mkdir been called
    sp_i,                \* split_json_file: loop index
    written              \* the files written, in write order: [number, content]

(***************************************************************************)
(* Bounds of the model.                                                    *)
(***************************************************************************)
MaxLines == 4
MaxLabelLen == 3
MaxTxtLines == 3
MaxPipeLines == 4
MaxCatalog == 3
MaxItems == 5
MaxSplits == 4
MaxBlocks == 3

\* the dimension vectorize normalises to (lines 43-46, 123)
D == 256

(***************************************************************************)
(* Python string and list primitives.                                      *)
(***************************************************************************)
NL == "\n"

At(seq, idx) == seq[idx + 1]

Max(a, b) == IF a >= b THEN a ELSE b

Min(a, b) == IF a <= b THEN a ELSE b

StartsWith(s, p) ==
    /\ Len(s) >= Len(p)
    /\ SubSeq(s, 1, Len(p)) = p

\* s[k:] for a Python index k >= 0
SliceFrom(s, k) == SubSeq(s, Min(k, Len(s)) + 1, Len(s))

\* first position (1-based) of character d in s, 0 when absent
FirstPos(s, d) ==
    IF \E k \in 1..Len(s) : s[k] = d
    THEN CHOOSE k \in 1..Len(s) : s[k] = d /\ \A j \in 1..(k - 1) : s[j] # d
    ELSE 0

RECURSIVE Split(_, _)
\* str.split(d) for a one-character separator: never an empty list
Split(s, d) ==
    LET k == FirstPos(s, d)
    IN  IF k = 0 THEN <<s>>
        ELSE <<SubSeq(s, 1, k - 1)>> \o Split(SubSeq(s, k + 1, Len(s)), d)

RECURSIVE Join(_, _)
\* d.join(parts)
Join(parts, d) ==
    IF Len(parts) = 0 THEN <<>>
    ELSE IF Len(parts) = 1 THEN parts[1]
    ELSE parts[1] \o <<d>> \o Join(Tail(parts), d)

RECURSIVE SeqsUpTo(_, _)
\* all sequences over S of length at most n
SeqsUpTo(S, n) ==
    IF n = 0 THEN {<<>>}
    ELSE LET shorter == SeqsUpTo(S, n - 1)
         IN  shorter \cup {Append(q, x) : q \in {r \in shorter : Len(r) = n - 1}, x \in S}

(***************************************************************************)
(* HL7 input lines the model draws from.                                   *)
(***************************************************************************)
MFE == <<"M", "F", "E">>
OM1 == <<"O", "M", "1">>
ADMINISTRATIF == <<"A", "D", "M", "I", "N", "I", "S", "T", "R", "A", "T", "I", "F">>
ADMINISTRATIVE == <<"A", "D", "M", "I", "N", "I", "S", "T", "R", "A", "T", "I", "V", "E">>
CONCLUSION == <<"C", "O", "N", "C", "L", "U", "S", "I", "O", "N">>

HL7LinePool ==
    { Join(<<MFE, <<"1">>, <<"2">>, <<"3">>, <<"X", "^", "Y">> >>, "|"),
      Join(<<MFE, <<"1">>, <<"2">>, <<"3">>, <<"X">> >>, "|"),
      Join(<<MFE, <<"1">>, <<"2">>, <<"3">> >>, "|"),
      Join(<<OM1, <<"1">>, <<"P", "^", "Q", "^", "R">> >>, "|"),
      Join(<<OM1, <<"1">>, <<"P", "^", "Q">> >>, "|"),
      Join(<<OM1, <<"1">>, <<"2">>, <<"P", "^", "Q", "^", "R">> >>, "|"),
      Join(<<OM1, <<"1">>, <<"P", "^", "Q", "^">> \o ADMINISTRATIF>>, "|"),
      Join(<<OM1, <<"1">>, <<"P", "^", "Q", "^">> \o ADMINISTRATIVE>>, "|"),
      Join(<<OM1, <<"1">>, <<"P", "^", "Q", "^">> \o CONCLUSION>>, "|"),
      Join(<<OM1, <<"1">> >>, "|") }

HL7Contents == {Join(ls, NL) : ls \in SeqsUpTo(HL7LinePool, MaxLines)}

\* Inputs long enough for a key to come back after a different key: runs of
\* up to MaxBlocks blocks of lines. PairA and PairA2 have the key P|Q|R|Y
\* and differ in MFE field[3], MFE field[4] and OM1 field[2]; PairB has the
\* key P|Q|R|W; PairExcluded is an excluded pair; LoneMFE is an MFE line
\* with no OM1 line of its own.
PairA ==
    <<Join(<<MFE, <<"1">>, <<"2">>, <<"3">>, <<"X", "^", "Y">> >>, "|"),
      Join(<<OM1, <<"1">>, <<"P", "^", "Q", "^", "R">> >>, "|")>>

PairA2 ==
    <<Join(<<MFE, <<"1">>, <<"2">>, <<"4">>, <<"Z", "^", "Y">> >>, "|"),
      Join(<<OM1, <<"1">>, <<"P", "^", "Q", "^", "R", "^", "S">> >>, "|")>>

PairB ==
    <<Join(<<MFE, <<"1">>, <<"2">>, <<"3">>, <<"X", "^", "W">> >>, "|"),
      Join(<<OM1, <<"1">>, <<"P", "^", "Q", "^", "R">> >>, "|")>>

PairExcluded ==
    <<Join(<<MFE, <<"1">>, <<"2">>, <<"3">>, <<"X", "^", "Y">> >>, "|"),
      Join(<<OM1, <<"1">>, <<"P", "^", "Q", "^">> \o CONCLUSION>>, "|")>>

LoneMFE == <<Join(<<MFE, <<"1">>, <<"2">>, <<"3">>, <<"X", "^", "Y">> >>, "|")>>

HL7BlockPool == {PairA, PairA2, PairB, PairExcluded, LoneMFE}

RECURSIVE Flatten(_)
\* the lines of a sequence of blocks
Flatten(blocks) ==
    IF Len(blocks) = 0 THEN <<>> ELSE blocks[1] \o Flatten(Tail(blocks))

HL7BlockContents ==
    {Join(Flatten(bs), NL) : bs \in SeqsUpTo(HL7BlockPool, MaxBlocks)}

\* what open()/read() can do: succeed, or raise FileNotFoundError,
\* PermissionError, or another exception (e.g. UnicodeDecodeError)
HL7Files ==
    [access : {"ok"}, content : HL7Contents \cup HL7BlockContents]
        \cup [access : {"missing", "denied", "unreadable"}, content : {<<>>}]

(***************************************************************************)
(* 2-extract_hl7_FranceLISLib.py                                           *)
(***************************************************************************)
extraire_sous_champs(champ) == Split(champ, "^")

\* parts[k] if len(parts) > k else ""
SousChamp(parts, k) == IF Len(parts) > k THEN At(parts, k) ELSE <<>>

\* a plausible slip of line 66: "> 5" for ">= 5"
MfeHasFieldsStrict(mfe_fields) == Len(mfe_fields) > 5

MfeHasFields(mfe_fields) == Len(mfe_fields) >= 5

Om1HasFields(om1_fields) == Len(om1_fields) >= 3

\* a plausible slip of line 89: only the category its comment names
RetainedAdminOnly(sous_champ3) == sous_champ3 # ADMINISTRATIF

Retained(sous_champ3) ==
    sous_champ3 # ADMINISTRATIF /\ sous_champ3 # CONCLUSION

\* a plausible slip of line 99: no membership test
NotSeenAlways(res_line, seen) == TRUE

NotSeen(res_line, seen) == res_line \notin seen

ResLine(sous_champ1, sous_champ2, sous_champ3, mfe_champ5_sous_champ2) ==
    sous_champ1 \o <<"|">> \o sous_champ2 \o <<"|">> \o sous_champ3
        \o <<"|">> \o mfe_champ5_sous_champ2

InitMaxLengths ==
    [k \in {"OM1_sous_champ1", "OM1_sous_champ2", "OM1_sous_champ3", "MFE5_sous_champ2"} |-> 0]

EmptyDict == [k \in {} |-> 0]

NoReturn == [none |-> TRUE]

\* a plausible slip of lines 125-133: "return None"
AccessErrorReturnNone == NoReturn

\* the triple of the three except branches
AccessErrorReturn ==
    [results |-> <<>>, max_lengths |-> EmptyDict,
     stats |-> [nb_doublons |-> 0, nb_uniques |-> 0]]

exvars == <<hl7_file, pc, lines, i, res_uniques, results, nb_doublons,
            max_lengths, sous_champ3_values, ret>>

nvars == <<n_label, n_table, n_pc, n_once, n_twice>>

mvars == <<vectorizer_model, config_ini, m_pc, m_lines, m_i, milvus_data,
           emb_failed, m_ret>>

svars == <<s_pc, s_model, query_embedding, s_catalog, vector_recherche, s_i,
           resultats, s_ret>>

spvars == <<input_file, available_memory, num_splits, sp_pc, file_size,
            memory_checked, input_opened, sp_data, total_items, items_per_split,
            output_dir_created, sp_i, written>>

\* the variables parse_hl7_file does not touch
notex == <<nvars, txt_file, mvars, svars, spvars>>

\* the variables standardize_label does not touch
notn == <<exvars, txt_file, mvars, svars, spvars>>

\* the variables parse_hl7_to_milvus does not touch
notm == <<exvars, nvars, txt_file, svars, spvars>>

\* the variables rechercher_code_ana does not touch
nots == <<exvars, nvars, txt_file, mvars, spvars>>

\* the variables split_json_file does not touch
notsp == <<exvars, nvars, txt_file, mvars, svars>>

ExtractInit ==
    /\ hl7_file \in HL7Files
    /\ pc = "start"
    /\ lines = <<>>
    /\ i = 0
    /\ res_uniques = {}
    /\ results = <<>>
    /\ nb_doublons = 0
    /\ max_lengths = InitMaxLengths
    /\ sous_champ3_values = {}
    /\ ret = NoReturn

\* open(file_path) and read(): lines 57-60
ParseOpen ==
    /\ pc = "start"
    /\ hl7_file.access = "ok"
    /\ lines' = Split(hl7_file.content, NL)
    /\ pc' = "scan"
    /\ UNCHANGED <<hl7_file, i, res_uniques, results, nb_doublons, max_lengths,
                   sous_champ3_values, ret, notex>>

\* open() or read() raises: lines 125-133
ParseAccessError ==
    /\ pc = "start"
    /\ hl7_file.access # "ok"
    /\ ret' = AccessErrorReturn
    /\ pc' = "returned"
    /\ UNCHANGED <<hl7_file, lines, i, res_uniques, results, nb_doublons,
                   max_lengths, sous_champ3_values, notex>>

\* one iteration of the loop of lines 62-114
ParseScanLine ==
    /\ pc = "scan"
    /\ i < Len(lines)
    /\ i' = i + 1
    /\ IF StartsWith(At(lines, i), MFE) /\ MfeHasFields(Split(At(lines, i), "|"))
       THEN LET mfe_fields == Split(At(lines, i), "|")
                champ5 == At(mfe_fields, 4)
                mfe_champ5_sous_champ2 == SousChamp(extraire_sous_champs(champ5), 1)
                ml1 == [max_lengths EXCEPT !["MFE5_sous_champ2"] =
                            Max(@, Len(mfe_champ5_sous_champ2))]
            IN  IF /\ i + 1 < Len(lines)
                   /\ StartsWith(At(lines, i + 1), OM1)
                   /\ Om1HasFields(Split(At(lines, i + 1), "|"))
                THEN LET om1_fields == Split(At(lines, i + 1), "|")
                         champ3_om1 == At(om1_fields, 2)
                         parts == extraire_sous_champs(champ3_om1)
                         sous_champ1 == SousChamp(parts, 0)
                         sous_champ2 == SousChamp(parts, 1)
                         sous_champ3 == SousChamp(parts, 2)
                         res_line == ResLine(sous_champ1, sous_champ2, sous_champ3,
                                             mfe_champ5_sous_champ2)
                     IN  /\ sous_champ3_values' = sous_champ3_values \cup {sous_champ3}
                         /\ IF Retained(sous_champ3)
                            THEN /\ max_lengths' =
                                      [ml1 EXCEPT
                                         !["OM1_sous_champ1"] = Max(@, Len(sous_champ1)),
                                         !["OM1_sous_champ2"] = Max(@, Len(sous_champ2)),
                                         !["OM1_sous_champ3"] = Max(@, Len(sous_champ3))]
                                 /\ IF NotSeen(res_line, res_uniques)
                                    THEN /\ res_uniques' = res_uniques \cup {res_line}
                                         /\ results' = Append(results,
                                               [MFE_champ4 |-> At(mfe_fields, 3),
                                                MFE_champ5 |-> champ5,
                                                OM1_champ3 |-> champ3_om1,
                                                RES |-> res_line,
                                                sous_champs |->
                                                  [OM1_sous_champ1 |-> sous_champ1,
                                                   OM1_sous_champ2 |-> sous_champ2,
                                                   OM1_sous_champ3 |-> sous_champ3,
                                                   MFE5_sous_champ2 |-> mfe_champ5_sous_champ2]])
                                         /\ UNCHANGED nb_doublons
                                    ELSE /\ nb_doublons' = nb_doublons + 1
                                         /\ UNCHANGED <<res_uniques, results>>
                            ELSE /\ max_lengths' = ml1
                                 /\ UNCHANGED <<res_uniques, results, nb_doublons>>
                ELSE /\ max_lengths' = ml1
                     /\ UNCHANGED <<res_uniques, results, nb_doublons, sous_champ3_values>>
       ELSE UNCHANGED <<res_uniques, results, nb_doublons, max_lengths, sous_champ3_values>>
    /\ UNCHANGED <<hl7_file, pc, lines, ret, notex>>

\* line 123
ParseReturn ==
    /\ pc = "scan"
    /\ i = Len(lines)
    /\ ret' = [results |-> results, max_lengths |-> max_lengths,
               stats |-> [nb_doublons |-> nb_doublons, nb_uniques |-> Len(results)]]
    /\ pc' = "returned"
    /\ UNCHANGED <<hl7_file, lines, i, res_uniques, results, nb_doublons,
                   max_lengths, sous_champ3_values, notex>>

(***************************************************************************)
(* 3-extract_to_milvus.py: standardize_label                              *)
(* Characters outside ASCII are named by their code point.                 *)
(***************************************************************************)
EACUTE == "U+00E9"
BEI == "U+5317"

LabelChars == {"a", "b", "A", " ", "-", "_", "!", EACUTE, BEI}

\* str.lower() on one character
Lower(c) ==
    CASE c = "A" -> "a"
      [] c = "B" -> "b"
      [] OTHER -> c

\* unidecode() on one character: ASCII is kept, U+00E9 gives "e", U+5317
\* gives "Bei " (a capitalised syllable and a space)
Unidecode(c) ==
    CASE c = EACUTE -> <<"e">>
      [] c = BEI -> <<"B", "e", "i", " ">>
      [] OTHER -> <<c>>

\* \s
IsSpace(c) == c \in {" ", "\t", NL}

\* \w: letters, digits and the underscore
IsWord(c) == c \in {"a", "b", "e", "i", "x", "A", "B", "_", EACUTE, BEI}

RECURSIVE LowerStr(_)
LowerStr(s) == IF s = <<>> THEN <<>> ELSE <<Lower(Head(s))>> \o LowerStr(Tail(s))

RECURSIVE UnidecodeStr(_)
UnidecodeStr(s) == IF s = <<>> THEN <<>> ELSE Unidecode(Head(s)) \o UnidecodeStr(Tail(s))

RECURSIVE SubSpaces(_)
\* re.sub(r'\s+', '-', s)
SubSpaces(s) ==
    IF s = <<>> THEN <<>>
    ELSE IF IsSpace(Head(s))
         THEN IF Len(s) > 1 /\ IsSpace(s[2])
              THEN SubSpaces(Tail(s))
              ELSE <<"-">> \o SubSpaces(Tail(s))
         ELSE <<Head(s)>> \o SubSpaces(Tail(s))

RECURSIVE SubDashUnderscore(_)
\* re.sub(r'[-_]', '-', s)
SubDashUnderscore(s) ==
    IF s = <<>> THEN <<>>
    ELSE <<IF Head(s) \in {"-", "_"} THEN "-" ELSE Head(s)>> \o SubDashUnderscore(Tail(s))

RECURSIVE SubNonWord(_)
\* re.sub(r'[^\w-]', '', s)
SubNonWord(s) ==
    IF s = <<>> THEN <<>>
    ELSE IF IsWord(Head(s)) \/ Head(s) = "-"
         THEN <<Head(s)>> \o SubNonWord(Tail(s))
         ELSE SubNonWord(Tail(s))

RECURSIVE SubDashes(_)
\* re.sub(r'-+', '-', s)
SubDashes(s) ==
    IF s = <<>> THEN <<>>
    ELSE IF Head(s) = "-" /\ Len(s) > 1 /\ s[2] = "-"
         THEN SubDashes(Tail(s))
         ELSE <<Head(s)>> \o SubDashes(Tail(s))

RECURSIVE StripChars(_, _)
\* s.strip(chars)
StripChars(s, chars) ==
    IF s = <<>> THEN <<>>
    ELSE IF Head(s) \in chars THEN StripChars(Tail(s), chars)
    ELSE IF s[Len(s)] \in chars THEN StripChars(SubSeq(s, 1, Len(s) - 1), chars)
    ELSE s

\* lines 60-65
Slug(label) ==
    StripChars(SubDashes(SubNonWord(SubDashUnderscore(SubSpaces(
        UnidecodeStr(LowerStr(label)))))), {"-"})

\* label in synonyms
InList(x, list) == \E k \in 1..Len(list) : list[k] = x

\* lines 67-69: the entry tested for a match
Matches(label, entry) == InList(label, entry.synonyms) \/ label = entry.canonical

\* lines 59-71; the table is a dict, iterated in insertion order
standardize_label(label, medical_synonyms) ==
    LET slug == Slug(label)
        hits == {k \in 1..Len(medical_synonyms) : Matches(slug, medical_synonyms[k])}
    IN  IF hits = {} THEN slug
        ELSE medical_synonyms[CHOOSE k \in hits : \A j \in hits : k <= j].canonical

\* synonym tables the model draws from: empty; one entry; a canonical key
\* listed among the synonyms of an earlier entry; a canonical key that is
\* not a slug
SynonymTables ==
    { <<>>,
      << [canonical |-> <<"a", "b">>, synonyms |-> <<<<"a", "-", "b">>, <<"b">> >>] >>,
      << [canonical |-> <<"b">>, synonyms |-> <<<<"a">> >>],
         [canonical |-> <<"a">>, synonyms |-> <<<<"a", "b">> >>] >>,
      << [canonical |-> <<"a", " ", "b">>, synonyms |-> <<<<"a", "b">> >>] >> }

NormInit ==
    /\ n_label \in SeqsUpTo(LabelChars, MaxLabelLen)
    /\ n_table \in SynonymTables
    /\ n_pc = 0
    /\ n_once = <<>>
    /\ n_twice = <<>>

\* standardize_label(x, T)
NormOnce ==
    /\ n_pc = 0
    /\ n_once' = standardize_label(n_label, n_table)
    /\ n_pc' = 1
    /\ UNCHANGED <<n_label, n_table, n_twice, notn>>

\* standardize_label(standardize_label(x, T), T)
NormTwice ==
    /\ n_pc = 1
    /\ n_twice' = standardize_label(n_once, n_table)
    /\ n_pc' = 2
    /\ UNCHANGED <<n_label, n_table, n_once, notn>>

(***************************************************************************)
(* 3-extract_to_milvus.py: MilvusVectorizer, load_medical_synonyms,        *)
(* parse_hl7_to_milvus                                                     *)
(***************************************************************************)
PyNone == [none |-> TRUE]

RES == <<"R", "E", "S">>

Whitespace == {" ", "\t", NL}

\* str.strip()
Strip(s) == StripChars(s, Whitespace)

Zeros(n) == [k \in 1..n |-> 0]

\* [0.0] * 256, line 123
ZeroVector == Zeros(D)

\* SentenceTransformer.encode, an external model: some vector of the model's
\* native length, a function of the text and nowhere zero
Encode(native_len, text) == [k \in 1..native_len |-> 1 + ((Len(text) + k) % 2)]

\* a plausible slip of lines 43-46: the padding branch forgotten
FitTruncateOnly(vector) ==
    IF Len(vector) > D THEN SubSeq(vector, 1, D) ELSE vector

\* lines 43-46: truncate or right-pad to 256
Fit(vector) ==
    IF Len(vector) > D THEN SubSeq(vector, 1, D)
    ELSE IF Len(vector) < D THEN vector \o Zeros(D - Len(vector))
    ELSE vector

\* MilvusVectorizer.vectorize, given what encode does: raises when the model
\* is None or when encode raises, else returns the fitted embedding
VectorizeOutcome(loaded, encode_raises, embedding) ==
    IF ~loaded \/ encode_raises
    THEN [raised |-> TRUE, vector |-> <<>>]
    ELSE [raised |-> FALSE, vector |-> Fit(embedding)]

\* MilvusVectorizer.vectorize
vectorize(model, text, encode_raises) ==
    VectorizeOutcome(model.loaded, encode_raises, Encode(model.native_len, text))

\* load_medical_synonyms: each value is split on ','
load_medical_synonyms(config) ==
    [k \in 1..Len(config) |->
        [canonical |-> config[k].key, synonyms |-> Split(config[k].value, ",")]]

ConfigInis ==
    { <<>>,
      << [key |-> <<"a", "b">>, value |-> <<"a", "-", "b", ",", "b">>] >> }

\* the native output lengths of the models drawn: shorter than, equal to and
\* longer than 256
NativeLens == {3, D, D + 1}

\* MilvusVectorizer.__init__: the model loaded, or None when loading raised
ModelNone == [loaded |-> FALSE, native_len |-> 0]

VectorizerModels == {ModelNone} \cup [loaded : {TRUE}, native_len : NativeLens]

\* a plausible slip of line 104: lines[i][3:]
ResPayloadFrom3(line) == SliceFrom(line, 3)

\* line 104: lines[i][4:]
ResPayload(line) == SliceFrom(line, 4)

\* a plausible slip of lines 119-133: a failing item is left out
WithVectorSkipFailed(data, item, outcome) ==
    IF outcome.raised THEN data
    ELSE Append(data, [item EXCEPT !.vector = outcome.vector])

\* lines 119-133: the entry appended, with a zero vector when vectorize raised
WithVector(data, item, outcome) ==
    Append(data, [item EXCEPT !.vector =
                     IF outcome.raised THEN ZeroVector ELSE outcome.vector])

TxtLinePool ==
    { RES \o <<":", " ", "a", "|", "A", " ", "b", "|", "c", "|", "d">>,
      RES \o <<":", " ", "a", " ", "|", " ", EACUTE, "|", "c", "|", "d", " ">>,
      RES \o <<":", " ", "a", "|", "b">>,
      RES \o <<":", " ", "a", "|", "b", "|", "c">>,
      RES \o <<":", " ", "a">>,
      <<"-", "-", "-">> }

TxtFiles ==
    [access : {"ok"}, content : {Join(ls, NL) : ls \in SeqsUpTo(TxtLinePool, MaxTxtLines)}]
        \cup [access : {"missing", "unreadable"}, content : {<<>>}]

MilvusLocalsInit ==
    /\ m_pc = "start"
    /\ m_lines = <<>>
    /\ m_i = 0
    /\ milvus_data = <<>>
    /\ emb_failed = <<>>
    /\ m_ret = PyNone

MilvusInit ==
    /\ txt_file \in TxtFiles
    /\ vectorizer_model \in VectorizerModels
    /\ config_ini \in ConfigInis
    /\ MilvusLocalsInit

\* lines 86-96
MilvusOpen ==
    /\ m_pc = "start"
    /\ txt_file.access = "ok"
    /\ m_lines' = Split(txt_file.content, NL)
    /\ m_pc' = "scan"
    /\ UNCHANGED <<vectorizer_model, config_ini, m_i, milvus_data, emb_failed, m_ret, notm>>

\* lines 137-142: open or read raised
MilvusAccessError ==
    /\ m_pc = "start"
    /\ txt_file.access # "ok"
    /\ m_ret' = PyNone
    /\ m_pc' = "returned"
    /\ UNCHANGED <<vectorizer_model, config_ini, m_lines, m_i, milvus_data, emb_failed, notm>>

\* one iteration of the loop of lines 100-133; encode_raises is what the
\* external embedding call does this time
MilvusScanLine ==
    /\ m_pc = "scan"
    /\ m_i < Len(m_lines)
    /\ \E encode_raises \in BOOLEAN :
         IF StartsWith(At(m_lines, m_i), RES)
               /\ Len(Split(Strip(ResPayload(At(m_lines, m_i))), "|")) >= 2
         THEN LET resline == Split(Strip(ResPayload(At(m_lines, m_i))), "|")
              IN  IF Len(resline) < 4
                  THEN \* resline[2] or resline[3] raises IndexError: lines 140-142
                       /\ m_ret' = PyNone
                       /\ m_pc' = "returned"
                       /\ UNCHANGED <<m_i, milvus_data, emb_failed>>
                  ELSE LET code_ana == Strip(At(resline, 0))
                           libelle_ana == Strip(At(resline, 1))
                           chap_ana == Strip(At(resline, 2))
                           iata_code == Strip(At(resline, 3))
                           medical_synonyms == load_medical_synonyms(config_ini)
                           standized_label == standardize_label(libelle_ana, medical_synonyms)
                           outcome == vectorize(vectorizer_model, standized_label, encode_raises)
                           item == [Code_Ana |-> code_ana,
                                    Libelle_Ana |-> libelle_ana,
                                    Libelle_Llm |-> standized_label,
                                    Iata_code |-> iata_code,
                                    Chap_Ana |-> chap_ana,
                                    vector |-> <<>>]
                       IN  /\ milvus_data' = WithVector(milvus_data, item, outcome)
                           /\ emb_failed' = Append(emb_failed, outcome.raised)
                           /\ m_i' = m_i + 1
                           /\ UNCHANGED <<m_pc, m_ret>>
         ELSE /\ m_i' = m_i + 1
              /\ UNCHANGED <<m_pc, m_ret, milvus_data, emb_failed>>
    /\ UNCHANGED <<vectorizer_model, config_ini, m_lines, notm>>

\* line 135
MilvusReturn ==
    /\ m_pc = "scan"
    /\ m_i = Len(m_lines)
    /\ m_ret' = [collectionName |-> "FRLISNAQ", data |-> milvus_data]
    /\ m_pc' = "returned"
    /\ UNCHANGED <<vectorizer_model, config_ini, m_lines, m_i, milvus_data, emb_failed, notm>>

(***************************************************************************)
(* 3-extract_to_milvus.py: rechercher_code_ana                             *)
(* Vector components are integers; a similarity dot / (|q| * |v|) is kept  *)
(* exactly as its numerator and the squares of the two norms, and is NaN   *)
(* when a norm is 0 (numpy divides 0.0 by 0.0).                            *)
(***************************************************************************)
\* the threshold 0.8 of line 233, as ThresholdNum / ThresholdDen
ThresholdNum == 4
ThresholdDen == 5

RECURSIVE DotRange(_, _, _, _)
\* the sum of u[k] * v[k] for k in lo..hi, summed by halves
DotRange(u, v, lo, hi) ==
    IF lo > hi THEN 0
    ELSE IF lo = hi THEN u[lo] * v[lo]
    ELSE LET mid == (lo + hi) \div 2
         IN  DotRange(u, v, lo, mid) + DotRange(u, v, mid + 1, hi)

\* np.dot
Dot(u, v) == DotRange(u, v, 1, Len(u))

\* lines 228-230
Similarity(q, v) ==
    [num |-> Dot(q, v), nq2 |-> Dot(q, q), nv2 |-> Dot(v, v)]

IsNaN(sim) == sim.nq2 * sim.nv2 = 0

\* a plausible slip of line 233: ">=" for ">"
AtLeastThreshold(sim) ==
    /\ ~IsNaN(sim)
    /\ sim.num > 0
    /\ ThresholdDen * ThresholdDen * sim.num * sim.num
          >= ThresholdNum * ThresholdNum * sim.nq2 * sim.nv2

\* line 233: similarite > 0.8 (false for NaN)
AboveThreshold(sim) ==
    /\ ~IsNaN(sim)
    /\ sim.num > 0
    /\ ThresholdDen * ThresholdDen * sim.num * sim.num
          > ThresholdNum * ThresholdNum * sim.nq2 * sim.nv2

\* a < b for two similarities that are not NaN
SimLess(a, b) ==
    IF a.num < 0 /\ b.num >= 0 THEN TRUE
    ELSE IF a.num >= 0 /\ b.num < 0 THEN FALSE
    ELSE IF a.num >= 0
         THEN a.num * a.num * b.nq2 * b.nv2 < b.num * b.num * a.nq2 * a.nv2
         ELSE a.num * a.num * b.nq2 * b.nv2 > b.num * b.num * a.nq2 * a.nv2

RECURSIVE InsertDesc(_, _)
\* x placed after every element whose similarity is not below its own
InsertDesc(sorted, x) ==
    IF sorted = <<>> THEN <<x>>
    ELSE IF SimLess(Head(sorted).Similarite, x.Similarite)
         THEN <<x>> \o sorted
         ELSE <<Head(sorted)>> \o InsertDesc(Tail(sorted), x)

RECURSIVE SortedDesc(_)
\* sorted(resultats, key=Similarite, reverse=True): a stable sort, so equal
\* similarities keep their order
SortedDesc(q) ==
    IF q = <<>> THEN <<>>
    ELSE InsertDesc(SortedDesc(SubSeq(q, 1, Len(q) - 1)), q[Len(q)])

\* embeddings and stored vectors the model draws from
QueryEmbeddings == {<<2, 1>>, <<1, 2>>, <<0, 0>>}

CatalogVectors == {<<2, 1>>, <<1, 2>>, <<1, 1>>, <<1, 0>>, <<0, 0>>}

\* catalogs: entry k has code k and a stored vector of 256 components
Catalogs ==
    { [k \in 1..Len(vs) |-> [Code_Ana |-> k, Libelle_Ana |-> k, vector |-> Fit(vs[k])]] :
        vs \in SeqsUpTo(CatalogVectors, MaxCatalog) }

SearchInit ==
    /\ s_pc = "start"
    /\ s_model \in {ModelNone, [loaded |-> TRUE, native_len |-> 2]}
    /\ query_embedding \in QueryEmbeddings
    /\ s_catalog \in Catalogs
    /\ vector_recherche = <<>>
    /\ s_i = 0
    /\ resultats = <<>>
    /\ s_ret = <<>>

\* lines 222-225: the ValueError of vectorize, or an exception of encode,
\* leaves the function
SearchVectorize ==
    /\ s_pc = "start"
    /\ \E encode_raises \in BOOLEAN :
         LET outcome == VectorizeOutcome(s_model.loaded, encode_raises, query_embedding)
         IN  IF outcome.raised
             THEN s_pc' = "raised" /\ UNCHANGED vector_recherche
             ELSE s_pc' = "loop" /\ vector_recherche' = outcome.vector
    /\ UNCHANGED <<s_model, query_embedding, s_catalog, s_i, resultats, s_ret, nots>>

\* one iteration of the loop of lines 226-238
SearchEntry ==
    /\ s_pc = "loop"
    /\ s_i < Len(s_catalog)
    /\ LET entry == At(s_catalog, s_i)
           similarite == Similarity(vector_recherche, entry.vector)
       IN  resultats' =
              IF AboveThreshold(similarite)
              THEN Append(resultats, [Code_Ana |-> entry.Code_Ana,
                                      Libelle_Ana |-> entry.Libelle_Ana,
                                      Similarite |-> similarite])
              ELSE resultats
    /\ s_i' = s_i + 1
    /\ UNCHANGED <<s_pc, s_model, query_embedding, s_catalog, vector_recherche, s_ret, nots>>

\* line 241
SearchReturn ==
    /\ s_pc = "loop"
    /\ s_i = Len(s_catalog)
    /\ s_ret' = SortedDesc(resultats)
    /\ s_pc' = "returned"
    /\ UNCHANGED <<s_model, query_embedding, s_catalog, vector_recherche, s_i, resultats, nots>>

SearchIdle ==
    /\ s_pc = "idle"
    /\ s_model = ModelNone
    /\ query_embedding = <<>>
    /\ s_catalog = <<>>
    /\ vector_recherche = <<>>
    /\ s_i = 0
    /\ resultats = <<>>
    /\ s_ret = <<>>

(***************************************************************************)
(* The two scripts in sequence: exporter_resultats writes the file that    *)
(* parse_hl7_to_milvus reads.                                              *)
(***************************************************************************)
LabelMfe4 == <<"M", "F", "E", " ", "C", "h", "a", "m", "p", " ", "4", ":", " ">>
LabelMfe5 == <<"M", "F", "E", " ", "C", "h", "a", "m", "p", " ", "5", ":", " ">>
LabelOm13 == <<"O", "M", "1", " ", "C", "h", "a", "m", "p", " ", "3", ":", " ">>
LabelRes == <<"R", "E", "S", ":", " ">>

\* lines 185-189: the five lines written for one record
ExportBlock(resultat) ==
    LabelMfe4 \o resultat.MFE_champ4 \o <<NL>>
        \o LabelMfe5 \o resultat.MFE_champ5 \o <<NL>>
        \o LabelOm13 \o resultat.OM1_champ3 \o <<NL>>
        \o LabelRes \o resultat.RES \o <<NL>>
        \o <<"-", "-", "-", NL>>

RECURSIVE ExportContent(_)
\* lines 183-189: what the export file holds
ExportContent(records) ==
    IF records = <<>> THEN <<>>
    ELSE ExportBlock(Head(records)) \o ExportContent(Tail(records))

PipeLinePool ==
    { Join(<<MFE, <<"1">>, <<"2">>, <<"3">>, <<"X", "^", "Y">> >>, "|"),
      Join(<<MFE, <<"1">>, <<"2">>, <<"3">>, <<"X", "^", " ", "Y">> >>, "|"),
      Join(<<OM1, <<"1">>, <<"a", "^", "A", " ", "b", "^", "c">> >>, "|"),
      Join(<<OM1, <<"1">>, <<" ", "a", "^", "A", " ", "b", "^", "c">> >>, "|"),
      Join(<<OM1, <<"1">>, <<"a", "^", EACUTE>> >>, "|") }

PipeFiles ==
    [access : {"ok"}, content : {Join(ls, NL) : ls \in SeqsUpTo(PipeLinePool, MaxPipeLines)}]
        \cup [access : {"missing"}, content : {<<>>}]

PipeModels == {ModelNone, [loaded |-> TRUE, native_len |-> 3]}

PipelineInit ==
    /\ hl7_file \in PipeFiles
    /\ pc = "start"
    /\ lines = <<>>
    /\ i = 0
    /\ res_uniques = {}
    /\ results = <<>>
    /\ nb_doublons = 0
    /\ max_lengths = InitMaxLengths
    /\ sous_champ3_values = {}
    /\ ret = NoReturn
    /\ txt_file = [access |-> "missing", content |-> <<>>]
    /\ vectorizer_model \in PipeModels
    /\ config_ini \in ConfigInis
    /\ m_pc = "idle"
    /\ m_lines = <<>>
    /\ m_i = 0
    /\ milvus_data = <<>>
    /\ emb_failed = <<>>
    /\ m_ret = PyNone

\* exporter_resultats(resultats) on the list parse_hl7_file returned
ExportResults ==
    /\ pc = "returned"
    /\ txt_file' = [access |-> "ok", content |-> ExportContent(ret.results)]
    /\ pc' = "exported"
    /\ UNCHANGED <<hl7_file, lines, i, res_uniques, results, nb_doublons,
                   max_lengths, sous_champ3_values, ret, nvars, mvars, svars, spvars>>

\* parse_hl7_to_milvus is called on the exported file (line 257)
MilvusStart ==
    /\ pc = "exported"
    /\ m_pc = "idle"
    /\ m_pc' = "start"
    /\ UNCHANGED <<vectorizer_model, config_ini, m_lines, m_i, milvus_data,
                   emb_failed, m_ret, notm>>

MilvusIdle ==
    /\ vectorizer_model = ModelNone
    /\ config_ini = <<>>
    /\ m_pc = "idle"
    /\ m_lines = <<>>
    /\ m_i = 0
    /\ milvus_data = <<>>
    /\ emb_failed = <<>>
    /\ m_ret = PyNone

NoTxtFile == txt_file = [access |-> "missing", content |-> <<>>]

\* the variables of a function that is not running
ExtractIdle ==
    /\ hl7_file = [access |-> "missing", content |-> <<>>]
    /\ pc = "idle"
    /\ lines = <<>>
    /\ i = 0
    /\ res_uniques = {}
    /\ results = <<>>
    /\ nb_doublons = 0
    /\ max_lengths = InitMaxLengths
    /\ sous_champ3_values = {}
    /\ ret = NoReturn

NormIdle ==
    /\ n_label = <<>>
    /\ n_table = <<>>
    /\ n_pc = 3
    /\ n_once = <<>>
    /\ n_twice = <<>>

(***************************************************************************)
(* split_json.py                                                           *)
(* Sizes and memory are whole numbers of bytes; file_size * 1.2 is compared *)
(* as 12 * file_size against 10 * available_memory. The items of the data  *)
(* list are named by their position in the input.                          *)
(***************************************************************************)
\* a plausible slip of lines 25-27: the 20% margin forgotten
RequiredExceedsAvailableNoMargin(size, available) == size > available

\* required_memory > available_memory, with required_memory = file_size * 1.2
RequiredExceedsAvailable(size, available) == 12 * size > 10 * available

\* a plausible slip of line 55: total_items // num_splits
FloorDiv(n, d) == n \div d

\* math.ceil(n / d) for n >= 0 and d >= 1
CeilDiv(n, d) == (n + d - 1) \div d

\* list[start:end]
Slice(list, start, end) ==
    SubSeq(list, Min(start, Len(list)) + 1, Min(end, Len(list)))

\* os.path.getsize(input_file), in bytes
FileSizes == {0, 5, 50}

\* psutil.virtual_memory().available, in bytes
AvailableMemories == {0, 6, 59, 60}

\* what json.load gives: a dict with a 'data' list, a value that is not a
\* dict, a dict without 'data', a dict whose 'data' is not a list; or it
\* raises on text that is not JSON
JsonShapes == {"dict_with_data_list", "not_dict", "no_data", "data_not_list", "invalid_json"}

CollectionNames ==
    {[present |-> FALSE, name |-> ""], [present |-> TRUE, name |-> "LAB"]}

NoCollectionName == [present |-> FALSE, name |-> ""]

MissingFile ==
    [exists |-> FALSE, size |-> 0, shape |-> "invalid_json",
     collectionName |-> NoCollectionName, data |-> <<>>]

RECURSIVE DigitsLen(_)
\* the number of decimal digits of k >= 0
DigitsLen(k) == IF k < 10 THEN 1 ELSE 1 + DigitsLen(k \div 10)

RECURSIVE ItemsLen(_, _)
\* the bytes of the first n items of a data list written without
\* whitespace, commas included
ItemsLen(data, n) ==
    IF n = 0 THEN 0
    ELSE IF n = 1 THEN DigitsLen(data[1])
    ELSE ItemsLen(data, n - 1) + 1 + DigitsLen(data[n])

\* the bytes of "collectionName":"LAB", (20 for the key, the quotes, the
\* colon and the comma, 3 for the name) when the key is present
CollectionNameLen(c) == IF c.present THEN 20 + 3 ELSE 0

\* the least number of bytes of a file that json.load reads as file's
\* shape and content: text that is not JSON can be empty, 0 is a value that
\* is not a dict, {} a dict without 'data', {"data":0} a dict whose 'data'
\* is not a list, and {"data":[]} holds 11 bytes around the items
MinSize(file) ==
    CASE file.shape = "invalid_json" -> 0
      [] file.shape = "not_dict" -> 1
      [] file.shape = "no_data" -> 2
      [] file.shape = "data_not_list" -> 10
      [] OTHER -> 11 + CollectionNameLen(file.collectionName)
                     + ItemsLen(file.data, Len(file.data))

InputFiles ==
    {MissingFile}
        \cup {f \in [exists : {TRUE}, size : FileSizes,
                     shape : JsonShapes \ {"dict_with_data_list"},
                     collectionName : {NoCollectionName}, data : {<<>>}] :
                 f.size >= MinSize(f)}
        \cup {f \in [exists : {TRUE}, size : FileSizes, shape : {"dict_with_data_list"},
                     collectionName : CollectionNames,
                     data : {[k \in 1..n |-> k] : n \in 0..MaxItems}] :
                 f.size >= MinSize(f)}

\* data.get("collectionName", "FRANCELIS")
GetCollectionName(file) ==
    IF file.collectionName.present THEN file.collectionName.name ELSE "FRANCELIS"

SplitLocalsInit ==
    /\ file_size = 0
    /\ memory_checked = FALSE
    /\ input_opened = FALSE
    /\ sp_data = <<>>
    /\ total_items = 0
    /\ items_per_split = 0
    /\ output_dir_created = FALSE
    /\ sp_i = 0
    /\ written = <<>>

SplitInit ==
    /\ input_file \in InputFiles
    /\ available_memory \in AvailableMemories
    /\ num_splits \in 0..MaxSplits
    /\ sp_pc = "start"
    /\ SplitLocalsInit

SplitIdle ==
    /\ input_file = MissingFile
    /\ available_memory = 0
    /\ num_splits = 4
    /\ sp_pc = "idle"
    /\ SplitLocalsInit

\* file_size = get_file_size(input_file): line 44
SplitGetSize ==
    /\ sp_pc = "start"
    /\ input_file.exists
    /\ file_size' = input_file.size
    /\ sp_pc' = "sized"
    /\ UNCHANGED <<input_file, available_memory, num_splits, memory_checked,
                   input_opened, sp_data, total_items, items_per_split,
                   output_dir_created, sp_i, written, notsp>>

\* os.path.getsize raises on a missing file: line 18
SplitGetSizeError ==
    /\ sp_pc = "start"
    /\ ~input_file.exists
    /\ sp_pc' = "FileNotFoundError"
    /\ UNCHANGED <<input_file, available_memory, num_splits, file_size,
                   memory_checked, input_opened, sp_data, total_items,
                   items_per_split, output_dir_created, sp_i, written, notsp>>

\* check_memory_requirement(file_size): lines 45, 20-33
SplitCheckMemory ==
    /\ sp_pc = "sized"
    /\ memory_checked' = TRUE
    /\ sp_pc' = IF RequiredExceedsAvailable(file_size, available_memory)
                THEN "MemoryError"
                ELSE "checked"
    /\ UNCHANGED <<input_file, available_memory, num_splits, file_size,
                   input_opened, sp_data, total_items, items_per_split,
                   output_dir_created, sp_i, written, notsp>>

\* open, json.load, the structure test and the two counts: lines 48-55
SplitLoad ==
    /\ sp_pc = "checked"
    /\ input_opened' = TRUE
    /\ IF input_file.shape = "invalid_json"
       THEN /\ sp_pc' = "JSONDecodeError"
            /\ UNCHANGED <<sp_data, total_items, items_per_split>>
       ELSE IF input_file.shape # "dict_with_data_list"
       THEN /\ sp_pc' = "ValueError"
            /\ UNCHANGED <<sp_data, total_items, items_per_split>>
       ELSE /\ sp_data' = input_file.data
            /\ total_items' = Len(input_file.data)
            /\ IF num_splits = 0
               THEN /\ sp_pc' = "ZeroDivisionError"
                    /\ UNCHANGED items_per_split
               ELSE /\ items_per_split' = CeilDiv(Len(input_file.data), num_splits)
                    /\ sp_pc' = "loaded"
    /\ UNCHANGED <<input_file, available_memory, num_splits, file_size,
                   memory_checked, output_dir_created, sp_i, written, notsp>>

\* output_dir.mkdir(exist_ok=True): lines 57-59
SplitMkdir ==
    /\ sp_pc = "loaded"
    /\ output_dir_created' = TRUE
    /\ sp_i' = 0
    /\ sp_pc' = "loop"
    /\ UNCHANGED <<input_file, available_memory, num_splits, file_size,
                   memory_checked, input_opened, sp_data, total_items,
                   items_per_split, written, notsp>>

\* one iteration of the loop of lines 63-89 that writes a file
SplitWrite ==
    /\ sp_pc = "loop"
    /\ sp_i < num_splits
    /\ LET start_idx == sp_i * items_per_split
           end_idx == Min((sp_i + 1) * items_per_split, total_items)
           split_data == Slice(sp_data, start_idx, end_idx)
       IN  /\ ~(start_idx >= total_items)
           /\ written' = Append(written,
                 [number |-> sp_i + 1,
                  content |-> [collectionName |-> GetCollectionName(input_file),
                               data |-> split_data]])
    /\ sp_i' = sp_i + 1
    /\ UNCHANGED <<input_file, available_memory, num_splits, sp_pc, file_size,
                   memory_checked, input_opened, sp_data, total_items,
                   items_per_split, output_dir_created, notsp>>

\* the loop ends, by the break of lines 67-68 or after num_splits rounds
SplitEnd ==
    /\ sp_pc = "loop"
    /\ \/ sp_i >= num_splits
       \/ sp_i * items_per_split >= total_items
    /\ sp_pc' = "done"
    /\ UNCHANGED <<input_file, available_memory, num_splits, file_size,
                   memory_checked, input_opened, sp_data, total_items,
                   items_per_split, output_dir_created, sp_i, written, notsp>>

(***************************************************************************)
(* What the claims speak of, stated from the input alone.                  *)
(***************************************************************************)
Fields(line) == Split(line, "|")

ReturnedOk == pc = "returned" /\ hl7_file.access = "ok"

\* the input line sequence (file_content.split('\n'), read once by ParseOpen)
InputLines == lines

\* line k (0-based) is an MFE line with at least 5 fields, followed by an
\* OM1 line with at least 3 fields
WellFormedPair(ls, k) ==
    /\ k + 1 < Len(ls)
    /\ StartsWith(At(ls, k), MFE)
    /\ Len(Fields(At(ls, k))) >= 5
    /\ StartsWith(At(ls, k + 1), OM1)
    /\ Len(Fields(At(ls, k + 1))) >= 3

SubField(field, k) ==
    LET parts == Split(field, "^") IN IF k < Len(parts) THEN At(parts, k) ELSE <<>>

PairCode(ls, k) == SubField(At(Fields(At(ls, k + 1)), 2), 0)
PairLabel(ls, k) == SubField(At(Fields(At(ls, k + 1)), 2), 1)
PairChapter(ls, k) == SubField(At(Fields(At(ls, k + 1)), 2), 2)
PairDetail(ls, k) == SubField(At(Fields(At(ls, k)), 4), 1)

\* the excluded categories are the two the code compares with (line 89)
ExcludedCategories == {ADMINISTRATIF, CONCLUSION}

QualifyingPair(ls, k) ==
    WellFormedPair(ls, k) /\ PairChapter(ls, k) \notin ExcludedCategories

PairKey(ls, k) ==
    Join(<<PairCode(ls, k), PairLabel(ls, k), PairChapter(ls, k), PairDetail(ls, k)>>, "|")

RECURSIVE QualifyingKeys(_, _)
\* the keys of the qualifying pairs at indices below n, in line order
QualifyingKeys(ls, n) ==
    IF n = 0 THEN <<>>
    ELSE IF QualifyingPair(ls, n - 1)
         THEN Append(QualifyingKeys(ls, n - 1), PairKey(ls, n - 1))
         ELSE QualifyingKeys(ls, n - 1)

RECURSIVE FirstOccurrences(_)
\* q without the elements that occur earlier in q
FirstOccurrences(q) ==
    IF Len(q) = 0 THEN <<>>
    ELSE LET front == SubSeq(q, 1, Len(q) - 1)
             last == q[Len(q)]
         IN  IF \E k \in 1..Len(front) : front[k] = last
             THEN FirstOccurrences(front)
             ELSE Append(FirstOccurrences(front), last)

ResKeys(recs) == [k \in 1..Len(recs) |-> recs[k].RES]

Chapters(recs) == {recs[k].sous_champs.OM1_sous_champ3 : k \in 1..Len(recs)}

PairwiseDistinct(q) == \A a, b \in 1..Len(q) : a # b => q[a] # q[b]

\* C1: on return, nb_uniques + nb_doublons is the number of qualifying
\* adjacent MFE/OM1 pairs of the input; malformed and excluded pairs add to
\* neither counter.
C1_CountsSumToQualifyingPairs ==
    ReturnedOk =>
        ret.stats.nb_uniques + ret.stats.nb_doublons
            = Cardinality({k \in 0..(Len(InputLines) - 1) : QualifyingPair(InputLines, k)})

\* C1 witness: a returned run that counted a unique record and a duplicate.
C1_Witness ==
    /\ ReturnedOk
    /\ ret.stats.nb_uniques >= 1
    /\ ret.stats.nb_doublons >= 1

\* C2 as stated: no returned record has chapter "ADMINISTRATIVE" or
\* "CONCLUSION".
C2_NoAdministrativeRecord ==
    ReturnedOk => Chapters(ret.results) \cap {ADMINISTRATIVE, CONCLUSION} = {}

\* C2 amended: no record, while scanning or returned, has chapter
\* "ADMINISTRATIF" or "CONCLUSION"; a well-formed pair with one of these
\* chapters produces no record.
C2_NoExcludedRecord ==
    /\ Chapters(results) \cap {ADMINISTRATIF, CONCLUSION} = {}
    /\ ReturnedOk => Chapters(ret.results) \cap {ADMINISTRATIF, CONCLUSION} = {}

\* C2 witness: the input holds a well-formed ADMINISTRATIF pair and a
\* well-formed CONCLUSION pair, and the run returned without a record.
C2_Witness ==
    /\ ReturnedOk
    /\ \E k \in 0..(Len(InputLines) - 1) :
          WellFormedPair(InputLines, k) /\ PairChapter(InputLines, k) = ADMINISTRATIF
    /\ \E k \in 0..(Len(InputLines) - 1) :
          WellFormedPair(InputLines, k) /\ PairChapter(InputLines, k) = CONCLUSION
    /\ ret.results = <<>>

\* the record of the pair at line k, from the input lines alone
PairRecord(ls, k) ==
    [MFE_champ4 |-> At(Fields(At(ls, k)), 3),
     MFE_champ5 |-> At(Fields(At(ls, k)), 4),
     OM1_champ3 |-> At(Fields(At(ls, k + 1)), 2),
     RES |-> PairKey(ls, k),
     sous_champs |-> [OM1_sous_champ1 |-> PairCode(ls, k),
                      OM1_sous_champ2 |-> PairLabel(ls, k),
                      OM1_sous_champ3 |-> PairChapter(ls, k),
                      MFE5_sous_champ2 |-> PairDetail(ls, k)]]

RECURSIVE QualifyingRecords(_, _)
\* the records of the qualifying pairs at indices below n, in line order
QualifyingRecords(ls, n) ==
    IF n = 0 THEN <<>>
    ELSE IF QualifyingPair(ls, n - 1)
         THEN Append(QualifyingRecords(ls, n - 1), PairRecord(ls, n - 1))
         ELSE QualifyingRecords(ls, n - 1)

RECURSIVE FirstByKey(_)
\* recs without the records whose key occurs earlier in recs
FirstByKey(recs) ==
    IF Len(recs) = 0 THEN <<>>
    ELSE LET front == SubSeq(recs, 1, Len(recs) - 1)
             last == recs[Len(recs)]
         IN  IF \E k \in 1..Len(front) : front[k].RES = last.RES
             THEN FirstByKey(front)
             ELSE Append(FirstByKey(front), last)

\* C3: the RES keys recorded so far are the first occurrences, in line
\* order, of the keys of the qualifying pairs scanned so far, and they are
\* pairwise distinct; each record is, field for field, that of the first
\* pair with its key, so a later pair with an already-seen key neither
\* replaces nor moves a record; the returned list is that of the whole input.
C3_KeysAreFirstOccurrences ==
    /\ pc = "scan" =>
          /\ ResKeys(results) = FirstOccurrences(QualifyingKeys(InputLines, i))
          /\ PairwiseDistinct(ResKeys(results))
          /\ results = FirstByKey(QualifyingRecords(InputLines, i))
    /\ ReturnedOk =>
          /\ ResKeys(ret.results)
                = FirstOccurrences(QualifyingKeys(InputLines, Len(InputLines)))
          /\ PairwiseDistinct(ResKeys(ret.results))
          /\ ret.results = FirstByKey(QualifyingRecords(InputLines, Len(InputLines)))

\* C3 witness: the input holds a pair of key P|Q|R|Y, then a pair of key
\* P|Q|R|W, then a second pair of key P|Q|R|Y with other MFE and OM1 fields;
\* the run returned the first pair's record, then the second pair's, and
\* counted one duplicate.
C3_Witness ==
    /\ ReturnedOk
    /\ InputLines = PairA \o PairB \o PairA2
    /\ PairKey(InputLines, 4) = PairKey(InputLines, 0)
    /\ PairRecord(InputLines, 4) # PairRecord(InputLines, 0)
    /\ ret.results = <<PairRecord(InputLines, 0), PairRecord(InputLines, 2)>>
    /\ ret.stats.nb_doublons = 1

\* C9: when the file cannot be opened or read, the call returns (it does not
\* raise) an empty record list with nb_uniques = 0 and nb_doublons = 0.
C9_AccessErrorReturnsEmpty ==
    hl7_file.access # "ok" =>
        /\ pc \in {"start", "returned"}
        /\ results = <<>> /\ nb_doublons = 0
        /\ pc = "returned" =>
              /\ DOMAIN ret = {"results", "max_lengths", "stats"}
              /\ ret.results = <<>>
              /\ ret.stats.nb_uniques = 0
              /\ ret.stats.nb_doublons = 0

\* C9 witness: a call on a missing file has returned.
C9_Witness == pc = "returned" /\ hl7_file.access = "missing"

\* C4 as stated: standardize_label is idempotent for every label and every
\* synonym table.
C4_Idempotent == n_pc = 2 => n_twice = n_once

\* the pipe-delimited fields of a RES line
ResFields(line) == Split(Strip(SliceFrom(line, 4)), "|")

RECURSIVE ItemLines(_, _, _)
\* the lines at indices below n that start with RES and hold at least
\* min_fields fields, in order
ItemLines(ls, n, min_fields) ==
    IF n = 0 THEN <<>>
    ELSE IF StartsWith(At(ls, n - 1), RES) /\ Len(ResFields(At(ls, n - 1))) >= min_fields
         THEN Append(ItemLines(ls, n - 1, min_fields), At(ls, n - 1))
         ELSE ItemLines(ls, n - 1, min_fields)

MilvusReturnedData == m_pc = "returned" /\ m_ret # PyNone

\* C5: every entry of the data list, while it is built and when it is
\* returned, has a vector of exactly 256 elements, whatever the model's native
\* length, and also when the embedding call raised or the model is None.
C5_VectorsHave256 ==
    /\ \A k \in 1..Len(milvus_data) : Len(milvus_data[k].vector) = 256
    /\ MilvusReturnedData =>
          \A k \in 1..Len(m_ret.data) : Len(m_ret.data[k].vector) = 256

\* C5 witness: a returned list, built with a model of native length 257,
\* that holds an entry whose embedding raised and an entry whose did not.
C5_Witness ==
    /\ MilvusReturnedData
    /\ vectorizer_model.loaded /\ vectorizer_model.native_len = 257
    /\ \E j, k \in 1..Len(m_ret.data) : emb_failed[j] /\ ~emb_failed[k]

\* C6: the entries built so far are, one per RES line scanned so far and in
\* line order, that line's stripped fields with the standardized label; the
\* vector is 256 zeros where the embedding call raised and the fitted
\* embedding where it did not; the call ends without data only at a RES line
\* of 2 or 3 fields, never because an embedding call raised.
C6_EmbeddingFailureIsolated ==
    /\ m_pc \in {"scan", "returned"} /\ txt_file.access = "ok" =>
          LET items == ItemLines(m_lines, m_i, 2)
              table == load_medical_synonyms(config_ini)
          IN  /\ Len(milvus_data) = Len(items)
              /\ Len(emb_failed) = Len(items)
              /\ \A k \in 1..Len(items) :
                    LET f == ResFields(items[k])
                        e == milvus_data[k]
                    IN  /\ e.Code_Ana = Strip(f[1])
                        /\ e.Libelle_Ana = Strip(f[2])
                        /\ e.Chap_Ana = Strip(f[3])
                        /\ e.Iata_code = Strip(f[4])
                        /\ e.Libelle_Llm = standardize_label(Strip(f[2]), table)
                        /\ e.vector =
                              IF emb_failed[k] THEN Zeros(256)
                              ELSE Fit(Encode(vectorizer_model.native_len, e.Libelle_Llm))
    /\ MilvusReturnedData => m_ret.data = milvus_data /\ m_i = Len(m_lines)
    /\ m_pc = "returned" /\ m_ret = PyNone /\ txt_file.access = "ok" =>
          /\ StartsWith(At(m_lines, m_i), RES)
          /\ Len(ResFields(At(m_lines, m_i))) \in {2, 3}

\* C6 witness: a returned list in which an entry whose embedding raised is
\* followed by an entry whose embedding did not.
C6_Witness ==
    /\ MilvusReturnedData
    /\ \E j, k \in 1..Len(m_ret.data) :
          /\ j < k
          /\ emb_failed[j] /\ m_ret.data[j].vector = Zeros(256)
          /\ ~emb_failed[k] /\ m_ret.data[k].vector # Zeros(256)

\* C8 as stated, for parse_hl7_to_milvus: whatever malformed lines the file
\* holds, the call returns the data list with one item per RES line of at
\* least 4 fields.
C8_MalformedLineNeverAborts ==
    m_pc = "returned" /\ txt_file.access = "ok" =>
        /\ m_ret # PyNone
        /\ Len(m_ret.data) = Len(ItemLines(m_lines, Len(m_lines), 4))

\* C10: the data list parse_hl7_to_milvus returns for the file
\* exporter_resultats wrote holds one entry per record returned by
\* parse_hl7_file, in order, with the record's code, label, chapter and
\* definition detail (stripped) and the standardized label.
C10_CatalogMirrorsRecords ==
    pc = "exported" /\ m_pc = "returned" =>
        /\ m_ret # PyNone
        /\ Len(m_ret.data) = Len(ret.results)
        /\ \A k \in 1..Len(ret.results) :
              LET sc == ret.results[k].sous_champs
                  e == m_ret.data[k]
              IN  /\ e.Code_Ana = Strip(sc.OM1_sous_champ1)
                  /\ e.Libelle_Ana = Strip(sc.OM1_sous_champ2)
                  /\ e.Chap_Ana = Strip(sc.OM1_sous_champ3)
                  /\ e.Iata_code = Strip(sc.MFE5_sous_champ2)
                  /\ e.Libelle_Llm =
                        standardize_label(sc.OM1_sous_champ2, load_medical_synonyms(config_ini))

\* C10 witness: two records whose keys differ only by whitespace went through
\* the export and came back as two entries with equal fields.
C10_Witness ==
    /\ pc = "exported" /\ m_pc = "returned" /\ m_ret # PyNone
    /\ Len(ret.results) = 2
    /\ ret.results[1].RES # ret.results[2].RES
    /\ Len(m_ret.data) = 2
    /\ m_ret.data[1].Code_Ana = m_ret.data[2].Code_Ana
    /\ m_ret.data[1].Iata_code = m_ret.data[2].Iata_code
    /\ m_ret.data[1].Libelle_Llm = <<"a", "b">>

\* the squared cosine of q and v exceeds 0.8 squared, with a positive dot
\* product and two non-zero norms
CosineAbove08(q, v) ==
    /\ Dot(q, q) > 0 /\ Dot(v, v) > 0
    /\ Dot(q, v) > 0
    /\ 25 * Dot(q, v) * Dot(q, v) > 16 * Dot(q, q) * Dot(v, v)

\* cos(q, u) < cos(q, v), for u and v with positive dot products with q
CosineLess(q, u, v) ==
    Dot(q, u) * Dot(q, u) * Dot(v, v) < Dot(q, v) * Dot(q, v) * Dot(u, u)

\* C7: the returned list holds exactly the catalog entries whose cosine
\* similarity to the query vector is strictly above 0.8, each once, in
\* descending order of similarity and, among equal similarities, in catalog
\* order; an entry of magnitude 0 is never returned and a query of magnitude
\* 0 returns nothing.
C7_SearchReturnsRankedMatches ==
    s_pc = "returned" =>
        LET q == vector_recherche
            vec(j) == s_catalog[s_ret[j].Code_Ana].vector
        IN  /\ {s_ret[j].Code_Ana : j \in 1..Len(s_ret)}
                  = {k \in 1..Len(s_catalog) : CosineAbove08(q, s_catalog[k].vector)}
            /\ \A j, k \in 1..Len(s_ret) : j # k => s_ret[j].Code_Ana # s_ret[k].Code_Ana
            /\ \A j \in 1..Len(s_ret) :
                  /\ s_ret[j].Libelle_Ana = s_catalog[s_ret[j].Code_Ana].Libelle_Ana
                  /\ s_ret[j].Similarite.num = Dot(q, vec(j))
                  /\ vec(j) # Zeros(256)
            /\ \A j \in 1..(Len(s_ret) - 1) :
                  /\ ~CosineLess(q, vec(j), vec(j + 1))
                  /\ ~CosineLess(q, vec(j + 1), vec(j))
                        => s_ret[j].Code_Ana < s_ret[j + 1].Code_Ana
            /\ q = Zeros(256) => s_ret = <<>>

\* C7 witness: a returned list of three entries: two of equal similarity, in
\* catalog order, moved ahead of an earlier catalog entry of lower similarity.
C7_Witness ==
    /\ s_pc = "returned"
    /\ Len(s_ret) = 3
    /\ s_ret[1].Code_Ana > s_ret[3].Code_Ana
    /\ s_ret[1].Similarite = s_ret[2].Similarite
    /\ s_ret[1].Code_Ana < s_ret[2].Code_Ana

MaxLengthKeys == {"OM1_sous_champ1", "OM1_sous_champ2", "OM1_sous_champ3", "MFE5_sous_champ2"}

RECURSIVE MaxLenOver(_, _, _)
\* the maximum length of sub-field key over the first n records of recs
\* (0 when n = 0)
MaxLenOver(recs, key, n) ==
    IF n = 0 THEN 0
    ELSE Max(MaxLenOver(recs, key, n - 1), Len(recs[n].sous_champs[key]))

\* C12 as stated: on return, each of the four maxima equals the maximum
\* length of that sub-field over the returned unique records (0 when there
\* are none), so an MFE line without a qualifying OM1 line, or of an excluded
\* pair, raises no maximum.
C12_MaximaAreOverRecords ==
    ReturnedOk =>
        \A key \in MaxLengthKeys :
            ret.max_lengths[key] = MaxLenOver(ret.results, key, Len(ret.results))

\* 1.2 x the size of the input file exceeds the available memory
HeadroomInsufficient == 12 * input_file.size > 10 * available_memory

\* C11: the comparison of 1.2 x file size with the available memory is made
\* before the input file is opened, and the file is opened only when the
\* comparison passed; when 1.2 x file size exceeds the available memory the
\* call can only end with MemoryError, and the input is never opened, the
\* output directory never created and no split file written.
C11_MemoryCheckedBeforeLoad ==
    /\ input_opened => memory_checked /\ ~HeadroomInsufficient
    /\ output_dir_created \/ written # <<>> => input_opened
    /\ sp_pc = "MemoryError" => memory_checked /\ HeadroomInsufficient
    /\ HeadroomInsufficient =>
          /\ sp_pc \in {"idle", "start", "sized", "MemoryError"}
          /\ memory_checked => sp_pc = "MemoryError"
          /\ ~input_opened
          /\ ~output_dir_created
          /\ written = <<>>

\* C11 witness: a call on a well-formed file of 50 bytes with 59 bytes
\* available (enough for the file, not for the margin) ended with
\* MemoryError.
C11_Witness ==
    /\ sp_pc = "MemoryError"
    /\ input_file.size = 50 /\ available_memory = 59
    /\ input_file.shape = "dict_with_data_list" /\ Len(input_file.data) > 0

RECURSIVE ConcatData(_, _)
\* the data lists of the first n files, concatenated
ConcatData(files, n) ==
    IF n = 0 THEN <<>>
    ELSE ConcatData(files, n - 1) \o files[n].content.data

\* ceil(n / d): the least c with c * d >= n
CeilOf(n, d) == CHOOSE c \in 0..n : c * d >= n /\ \A b \in 0..(c - 1) : b * d < n

\* list is a run of consecutive items of whole
ContiguousSlice(list, whole) ==
    \E a \in 1..(Len(whole) + 1) : list = SubSeq(whole, a, a + Len(list) - 1)

\* C13: for a data list of n >= 0 items and num_splits >= 1, the files
\* written are numbered 1, 2, ... in write order and are at most num_splits;
\* each holds a non-empty contiguous slice of at most ceil(n / num_splits)
\* items; their data lists, concatenated in file-number order, are a prefix
\* of the input list while the loop runs and the whole input list when the
\* call ends; with n = 0 no file is written.
C13_OrderPreservingPartition ==
    sp_pc \in {"loop", "done"} /\ num_splits >= 1 =>
        LET whole == input_file.data
            n == Len(whole)
            joined == ConcatData(written, Len(written))
        IN  /\ Len(written) <= num_splits
            /\ \A k \in 1..Len(written) :
                  /\ written[k].number = k
                  /\ written[k].content.data # <<>>
                  /\ Len(written[k].content.data) <= CeilOf(n, num_splits)
                  /\ ContiguousSlice(written[k].content.data, whole)
            /\ Len(joined) <= n
            /\ joined = SubSeq(whole, 1, Len(joined))
            /\ sp_pc = "done" => joined = whole
            /\ n = 0 => written = <<>>

\* C13 witness: 5 items split in 4 ended with 3 files of 2, 2 and 1 items.
C13_Witness ==
    /\ sp_pc = "done"
    /\ Len(input_file.data) = 5 /\ num_splits = 4
    /\ Len(written) = 3
    /\ Len(written[1].content.data) = 2
    /\ Len(written[3].content.data) = 1

vars == <<exvars, nvars, txt_file, mvars, svars, spvars>>

\* parse_hl7_file on an input file
Init == ExtractInit /\ NormIdle /\ NoTxtFile /\ MilvusIdle /\ SearchIdle /\ SplitIdle

Next == ParseOpen \/ ParseAccessError \/ ParseScanLine \/ ParseReturn

Spec == Init /\ [][Next]_vars

\* standardize_label applied twice to a label
InitNorm == NormInit /\ ExtractIdle /\ NoTxtFile /\ MilvusIdle /\ SearchIdle /\ SplitIdle

NextNorm == NormOnce \/ NormTwice

SpecNorm == InitNorm /\ [][NextNorm]_vars

\* parse_hl7_to_milvus on a text file
InitMilvus == MilvusInit /\ ExtractIdle /\ NormIdle /\ SearchIdle /\ SplitIdle

NextMilvus == MilvusOpen \/ MilvusAccessError \/ MilvusScanLine \/ MilvusReturn

SpecMilvus == InitMilvus /\ [][NextMilvus]_vars

\* parse_hl7_file, exporter_resultats, then parse_hl7_to_milvus on the export
InitPipeline == PipelineInit /\ NormIdle /\ SearchIdle /\ SplitIdle

NextPipeline ==
    \/ ParseOpen \/ ParseAccessError \/ ParseScanLine \/ ParseReturn
    \/ ExportResults \/ MilvusStart
    \/ MilvusOpen \/ MilvusScanLine \/ MilvusReturn

SpecPipeline == InitPipeline /\ [][NextPipeline]_vars

\* rechercher_code_ana on a catalog
InitSearch == SearchInit /\ ExtractIdle /\ NormIdle /\ NoTxtFile /\ MilvusIdle /\ SplitIdle

NextSearch == SearchVectorize \/ SearchEntry \/ SearchReturn

SpecSearch == InitSearch /\ [][NextSearch]_vars

\* split_json_file on an input file
InitSplit ==
    SplitInit /\ ExtractIdle /\ NormIdle /\ NoTxtFile /\ MilvusIdle /\ SearchIdle

NextSplit ==
    \/ SplitGetSize \/ SplitGetSizeError \/ SplitCheckMemory \/ SplitLoad
    \/ SplitMkdir \/ SplitWrite \/ SplitEnd

SpecSplit == InitSplit /\ [][NextSplit]_vars
====
